---------------------------- MODULE Spec2Model ----------------------------
(***************************************************************************)
(* Model of the kintai (attendance) application, src/app.py.               *)
(*                                                                         *)
(* State: the work_logs table, the wall clock, the last response sent to   *)
(* the browser, and, for the interleaved specification, the locals of the  *)
(* requests in flight and SQLite's write lock.  skew_left counts the times *)
(* the wall clock may still be set back; probe holds the arguments and the *)
(* result of a direct call of calc_work_minutes or of fmt_minutes.         *)
(*                                                                         *)
(* Text values (dates, timestamps, formatted minutes) are sequences of     *)
(* character codes, so that formatting, parsing, string comparison and     *)
(* LIKE prefix matching are computed the way the program computes them.    *)
(* An Optional value is <<>> (None / NULL) or <<v>>.                       *)
(***************************************************************************)
EXTENDS Integers, Sequences, FiniteSets, TLC

VARIABLES work_logs, sqlite_sequence, now, skew_left, resp, req, wlock, probe

vars == <<work_logs, sqlite_sequence, now, skew_left, resp, req, wlock, probe>>

(***************************************************************************)
(* Bounds of the model.                                                    *)
(***************************************************************************)
\* rows the table may hold
MaxRows == 3
\* calendar days after the first one that the clock may reach
MaxDay == 1
\* times the wall clock may be set back
MaxSkews == 1
\* whole minutes, after midnight, of the timestamps given to a direct call
MaxProbeMin == 2
\* the largest number of minutes fmt_minutes is called on directly
MaxFmtMinutes == 450

(***************************************************************************)
(* Program constants.                                                      *)
(***************************************************************************)
\* "-" : the text shown for an absent value
Dash == 45
\* ":" between hours and minutes
Colon == 58
\* " " : isoformat(sep=" ")
Space == 32
\* total_seconds() // 60
SecPerMin == 60
\* m // 60, m % 60
MinPerHour == 60

(***************************************************************************)
(* Optional values and text.                                               *)
(***************************************************************************)
None == <<>>

Some(v) == <<v>>

IsNone(o) == o = None

Val(o) == o[1]

\* Python truthiness of an Optional[str]: None and "" are false
Truthy(o) == o # None /\ Val(o) # <<>>

Digit(n) == 48 + n

\* decimal digits of n >= 0, without padding
RECURSIVE Decimal(_)
Decimal(n) == IF n < 10 THEN <<Digit(n)>> ELSE Decimal(n \div 10) \o <<Digit(n % 10)>>

\* str(n) / f"{n}" of an integer
IntStr(n) == IF n < 0 THEN <<Dash>> \o Decimal(-n) ELSE Decimal(n)

\* {:d} in place of {:0wd}: no padding
ZeroPadNot(n, w) == Decimal(n)

\* n formatted with at least w digits, zero padded ({:0wd})
ZeroPad(n, w) ==
    LET s == Decimal(n)
        pad[k \in 0..w] == IF k = 0 THEN <<>> ELSE <<Digit(0)>> \o pad[k - 1]
    IN  IF Len(s) >= w THEN s ELSE pad[w - Len(s)] \o s

\* the number a run of digits denotes
RECURSIVE ToInt(_)
ToInt(s) == IF s = <<>> THEN 0 ELSE 10 * ToInt(SubSeq(s, 1, Len(s) - 1)) + (s[Len(s)] - 48)

\* string comparison, as Python and SQLite (BINARY collation) compare text
RECURSIVE StrLess(_, _)
StrLess(a, b) ==
    IF b = <<>> THEN FALSE
    ELSE IF a = <<>> THEN TRUE
    ELSE IF a[1] # b[1] THEN a[1] < b[1]
    ELSE StrLess(Tail(a), Tail(b))

StartsWith(s, p) == Len(s) >= Len(p) /\ SubSeq(s, 1, Len(p)) = p

(***************************************************************************)
(* The calendar of datetime.date / datetime.datetime.                      *)
(***************************************************************************)
IsLeap(y) == y % 4 = 0 /\ (y % 100 # 0 \/ y % 400 = 0)

DaysInMonth(y, m) ==
    IF m = 2 THEN (IF IsLeap(y) THEN 29 ELSE 28)
    ELSE IF m \in {4, 6, 9, 11} THEN 30 ELSE 31

DaysBeforeYear(y) == (y - 1) * 365 + (y - 1) \div 4 - (y - 1) \div 100 + (y - 1) \div 400

RECURSIVE DaysBeforeMonth(_, _)
DaysBeforeMonth(y, m) == IF m = 1 THEN 0 ELSE DaysBeforeMonth(y, m - 1) + DaysInMonth(y, m - 1)

\* date.toordinal
Ymd2Ord(y, m, d) == DaysBeforeYear(y) + DaysBeforeMonth(y, m) + d

\* date.fromordinal, for the years the model's clock can show
Ord2Ymd(n) ==
    LET y == CHOOSE yy \in 2025..2027 : DaysBeforeYear(yy) < n /\ n <= DaysBeforeYear(yy + 1)
        m == CHOOSE mm \in 1..12 :
                 /\ DaysBeforeMonth(y, mm) < n - DaysBeforeYear(y)
                 /\ n - DaysBeforeYear(y) <= DaysBeforeMonth(y, mm) + DaysInMonth(y, mm)
    IN  <<y, m, n - DaysBeforeYear(y) - DaysBeforeMonth(y, m)>>

SecPerDay == 24 * 60 * 60

\* the model's clock counts seconds from 2026-01-31 00:00:00 local time
EpochOrd == Ymd2Ord(2026, 1, 31)

\* times of day the clock shows: 09:00:00, 12:30:30
TimesOfDay == {9 * 3600, 12 * 3600 + 30 * 60 + 30}

Instants == {d * SecPerDay + t : d \in 0..MaxDay, t \in TimesOfDay}

\* date.isoformat(): YYYY-MM-DD
DateIso(ymd) == ZeroPad(ymd[1], 4) \o <<Dash>> \o ZeroPad(ymd[2], 2) \o <<Dash>> \o ZeroPad(ymd[3], 2)

\* time.isoformat(): HH:MM:SS of a second of the day
TimeIso(sec) ==
    ZeroPad(sec \div 3600, 2) \o <<Colon>> \o ZeroPad((sec % 3600) \div 60, 2)
        \o <<Colon>> \o ZeroPad(sec % 60, 2)

(***************************************************************************)
(* Business logic.                                                         *)
(***************************************************************************)
\* today_str() when the wall clock shows t
today_str(t) == DateIso(Ord2Ymd(EpochOrd + t \div SecPerDay))

\* now_iso() when the wall clock shows t: "YYYY-MM-DD HH:MM:SS"
now_iso(t) == today_str(t) \o <<Space>> \o TimeIso(t % SecPerDay)

\* parse_dt: None for None or "", else datetime.fromisoformat
parse_dt(s) ==
    IF ~Truthy(s) THEN None
    ELSE LET x == Val(s)
         IN  Some([year   |-> ToInt(SubSeq(x, 1, 4)),
                   month  |-> ToInt(SubSeq(x, 6, 7)),
                   day    |-> ToInt(SubSeq(x, 9, 10)),
                   hour   |-> ToInt(SubSeq(x, 12, 13)),
                   minute |-> ToInt(SubSeq(x, 15, 16)),
                   second |-> ToInt(SubSeq(x, 18, 19))])

\* (a - b).total_seconds() of two datetimes
TotalSeconds(a, b) ==
    (Ymd2Ord(a.year, a.month, a.day) - Ymd2Ord(b.year, b.month, b.day)) * SecPerDay
        + (a.hour * 3600 + a.minute * 60 + a.second)
        - (b.hour * 3600 + b.minute * 60 + b.second)

\* Python's floor division by a positive number
FloorDiv(a, b) == IF a >= 0 THEN a \div b ELSE -((-a + b - 1) \div b)

\* a max that does not clamp
MaxFirst(a, b) == a

\* max(minutes, 0)
Max(a, b) == IF a >= b THEN a ELSE b

calc_work_minutes(clock_in, clock_out) ==
    LET dt_in == parse_dt(clock_in)
        dt_out == parse_dt(clock_out)
    IN  IF IsNone(dt_in) \/ IsNone(dt_out) THEN None
        ELSE LET minutes == FloorDiv(TotalSeconds(Val(dt_out), Val(dt_in)), SecPerMin)
             IN  Some(Max(minutes, 0))

\* "if not m" in place of "if m is None": 0 is shown as "-" too
fmt_minutes_falsy(m) ==
    IF IsNone(m) \/ Val(m) = 0 THEN <<Dash>>
    ELSE LET h == FloorDiv(Val(m), MinPerHour)
             mm == Val(m) % MinPerHour
         IN  IntStr(h) \o <<Colon>> \o ZeroPad(mm, 2)

fmt_minutes(m) ==
    IF IsNone(m) THEN <<Dash>>
    ELSE LET h == FloorDiv(Val(m), MinPerHour)
             mm == Val(m) % MinPerHour
         IN  IntStr(h) \o <<Colon>> \o ZeroPad(mm, 2)

(***************************************************************************)
(* The work_logs table and the queries the handlers run on it.             *)
(***************************************************************************)
\* a row of work_logs (created_at, which no handler reads, is left out)
Row(id, work_date, clock_in, clock_out) ==
    [id |-> id, work_date |-> work_date, clock_in |-> clock_in, clock_out |-> clock_out]

RowSet(rows) == {rows[i] : i \in 1..Len(rows)}

\* a DROP TABLE before the CREATE TABLE: the table is made anew
init_db_recreates(rows) == <<>>

\* before every request: CREATE TABLE IF NOT EXISTS work_logs, CREATE INDEX IF
\* NOT EXISTS, commit.  The table exists from the first request on, and its
\* rows are kept.
init_db(rows) == rows

\* the SELECT ordered by id without DESC: the day's first row
OldestSession(rows, d) ==
    LET mine == {r \in RowSet(rows) : r.work_date = d}
    IN  IF mine = {} THEN None
        ELSE Some(CHOOSE r \in mine : \A o \in mine : o.id >= r.id)

\* the SELECT without WHERE work_date = ?: the table's last row
LatestSessionAnyDate(rows, d) ==
    IF rows = <<>> THEN None
    ELSE Some(CHOOSE r \in RowSet(rows) : \A o \in RowSet(rows) : o.id <= r.id)

\* SELECT * FROM work_logs WHERE work_date = ? ORDER BY id DESC LIMIT 1  (fetchone)
LatestSession(rows, d) ==
    LET mine == {r \in RowSet(rows) : r.work_date = d}
    IN  IF mine = {} THEN None
        ELSE Some(CHOOSE r \in mine : \A o \in mine : o.id <= r.id)

\* an INSERT that binds ts to clock_out as well
InsertRowClockedOut(rows, seq, d, ts) == Append(rows, Row(seq + 1, d, Some(ts), Some(ts)))

\* an INSERT with its two time columns exchanged: VALUES (?, NULL, ?)
InsertRowClockOutOnly(rows, seq, d, ts) == Append(rows, Row(seq + 1, d, None, Some(ts)))

\* INSERT INTO work_logs(work_date, clock_in, clock_out) VALUES (?, ?, NULL)
\* with id INTEGER PRIMARY KEY AUTOINCREMENT
InsertRow(rows, seq, d, ts) == Append(rows, Row(seq + 1, d, Some(ts), None))

\* an UPDATE without its WHERE clause
UpdateClockOutEveryRow(rows, ts, id) ==
    [i \in 1..Len(rows) |-> [rows[i] EXCEPT !.clock_out = Some(ts)]]

\* UPDATE work_logs SET clock_out = ? WHERE id = ?
UpdateClockOut(rows, ts, id) ==
    [i \in 1..Len(rows) |->
        IF rows[i].id = id THEN [rows[i] EXCEPT !.clock_out = Some(ts)] ELSE rows[i]]

\* SQLite's LIKE on text without letters: % matches any run, _ any one character
RECURSIVE Like(_, _)
Like(s, p) ==
    IF p = <<>> THEN s = <<>>
    ELSE IF p[1] = 37 THEN Like(s, Tail(p)) \/ (s # <<>> /\ Like(Tail(s), p))
    ELSE IF s = <<>> THEN FALSE
    ELSE (p[1] = 95 \/ p[1] = s[1]) /\ Like(Tail(s), Tail(p))

\* ORDER BY work_date DESC, id
OrderedBefore(a, b) ==
    \/ StrLess(b.work_date, a.work_date)
    \/ a.work_date = b.work_date /\ a.id < b.id

RECURSIVE OrderRows(_)
OrderRows(S) ==
    IF S = {} THEN <<>>
    ELSE LET first == CHOOSE r \in S : \A o \in S \ {r} : OrderedBefore(r, o)
         IN  <<first>> \o OrderRows(S \ {first})

\* the SELECT without its WHERE clause, whatever the month
SelectLogsEveryMonth(rows, month) == OrderRows(RowSet(rows))

\* the rows logs() fetches: lines 160-167
SelectLogs(rows, month) ==
    IF Truthy(month)
    THEN OrderRows({r \in RowSet(rows) : Like(r.work_date, Val(month) \o <<Dash, 37>>)})
    ELSE OrderRows(RowSet(rows))

(***************************************************************************)
(* The report of logs(): lines 169-204.                                    *)
(***************************************************************************)
\* x or "-"
OrDash(x) == IF Truthy(x) THEN Val(x) ELSE <<Dash>>

\* mins or 0
OrZero(m) == IF IsNone(m) \/ Val(m) = 0 THEN 0 ELSE Val(m)

LogRecord(r) ==
    LET mins == calc_work_minutes(r.clock_in, r.clock_out)
    IN  [clock_in |-> OrDash(r.clock_in), clock_out |-> OrDash(r.clock_out),
         work_time |-> fmt_minutes(mins), minutes |-> OrZero(mins)]

\* the loop of lines 171-182: a dict from work_date to the list of its records
RECURSIVE GroupByDate(_, _)
GroupByDate(rows, daily) ==
    IF rows = <<>> THEN daily
    ELSE LET r == Head(rows)
             d == r.work_date
             have == IF d \in DOMAIN daily THEN daily ELSE daily @@ (d :> <<>>)
         IN  GroupByDate(Tail(rows), [have EXCEPT ![d] = Append(@, LogRecord(r))])

\* sorted(keys) without reverse=True
RECURSIVE SortedAsc(_)
SortedAsc(K) ==
    IF K = {} THEN <<>>
    ELSE LET low == CHOOSE k \in K : \A o \in K \ {k} : StrLess(k, o)
         IN  <<low>> \o SortedAsc(K \ {low})

\* sorted(keys, reverse=True)
RECURSIVE SortedDesc(_)
SortedDesc(K) ==
    IF K = {} THEN <<>>
    ELSE LET top == CHOOSE k \in K : \A o \in K \ {k} : StrLess(o, k)
         IN  <<top>> \o SortedDesc(K \ {top})

\* a sum that stops after the first record
SumMinutesFirstOnly(recs) == IF recs = <<>> THEN 0 ELSE Head(recs).minutes

\* sum(rec["minutes"] for rec in recs)
RECURSIVE SumMinutes(_)
SumMinutes(recs) == IF recs = <<>> THEN 0 ELSE Head(recs).minutes + SumMinutes(Tail(recs))

\* the loop of lines 188-196, carrying <<enriched, total_min>>
RECURSIVE Enrich(_, _, _)
Enrich(keys, daily, acc) ==
    IF keys = <<>> THEN acc
    ELSE LET d == Head(keys)
             day_total == SumMinutes(daily[d])
         IN  Enrich(Tail(keys), daily,
                    <<Append(acc[1], [work_date |-> d, records |-> daily[d],
                                      day_total |-> fmt_minutes(Some(day_total))]),
                      acc[2] + day_total>>)

\* the template context of logs()
LogsContext(rows, month) ==
    LET daily == GroupByDate(SelectLogs(rows, month), <<>>)
        done == Enrich(SortedDesc(DOMAIN daily), daily, <<<<>>, 0>>)
    IN  [route |-> "logs",
         daily_logs |-> done[1],
         month |-> IF Truthy(month) THEN Val(month) ELSE <<>>,
         total_time |-> fmt_minutes(Some(done[2])),
         total_days |-> Cardinality(DOMAIN daily)]

(***************************************************************************)
(* Requests.                                                               *)
(***************************************************************************)
\* the two requests that may be in flight together
Workers == {"r1", "r2"}

\* values of the month query parameter: absent, "", 2026-01, 2026-02, 2026-0
MonthArgs ==
    {None, Some(<<>>),
     Some(<<50, 48, 50, 54, 45, 48, 49>>), Some(<<50, 48, 50, 54, 45, 48, 50>>),
     Some(<<50, 48, 50, 54, 45, 48>>)}

\* a request's locals: its place in the handler and the handler's d, last and ts
Idle == [pc |-> "idle", route |-> "none", d |-> None, last |-> None, ts |-> None]

\* the redirect to index with its flash message
Flashed(route, category, ts) == [route |-> route, category |-> category, ts |-> ts]

\* a clock_in that never looks at the latest row
ClockInNeverRefused(last) == FALSE

\* a clock_in refused whenever the day has a row
ClockInRefusedOncePerDay(last) == last # None

\* line 112: the latest row of the day is not clocked out
ClockInRefused(last) == last # None /\ ~Truthy(Val(last).clock_out)

\* a clock_out without the check of lines 141-143
ClockOutCheckNoClosedTest(last) ==
    IF last = None \/ ~Truthy(Val(last).clock_in) THEN "error" ELSE "ok"

\* lines 137-143: "error" (no row, or no clock_in), "warning" (already clocked
\* out), or "ok"
ClockOutCheck(last) ==
    IF last = None \/ ~Truthy(Val(last).clock_in) THEN "error"
    ELSE IF Truthy(Val(last).clock_out) THEN "warning"
    ELSE "ok"

\* the wall clock read again later in a handler: it has moved on, or was set back
ClockReads(t) ==
    /\ t \in Instants
    /\ t >= now \/ skew_left > 0
    /\ now' = t
    /\ skew_left' = IF t < now THEN skew_left - 1 ELSE skew_left

InitStore ==
    /\ work_logs = <<>>
    /\ sqlite_sequence = 0
    /\ now = 9 * 3600
    /\ resp = [route |-> "none"]
    /\ req = [w \in Workers |-> Idle]
    /\ wlock = None

\* the wall clock never goes back
Init == InitStore /\ skew_left = 0 /\ probe = None

\* time passes
Tick ==
    /\ \E t \in Instants : t > now /\ now' = t
    /\ UNCHANGED <<work_logs, sqlite_sequence, skew_left, resp, req, wlock, probe>>

\* the wall clock is set back (clock skew)
ClockBack ==
    /\ skew_left > 0
    /\ \E t \in Instants : t < now /\ now' = t
    /\ skew_left' = skew_left - 1
    /\ UNCHANGED <<work_logs, sqlite_sequence, resp, req, wlock, probe>>

\* a clock_in whose refusal flashes the warning and, with no return, goes on
ClockInFallsThrough ==
    LET d == today_str(now)
    IN  /\ Len(work_logs) < MaxRows
        /\ \E t \in Instants :
              /\ ClockReads(t)
              /\ work_logs' = InsertRow(work_logs, sqlite_sequence, d, now_iso(t))
              /\ resp' = Flashed("clock-in", "success", Some(now_iso(t)))
        /\ sqlite_sequence' = sqlite_sequence + 1
        /\ UNCHANGED <<req, wlock, probe>>

\* POST /clock-in, run to completion
ClockIn ==
    LET table == init_db(work_logs)
        d == today_str(now)
        last == LatestSession(table, d)
    IN  /\ IF ClockInRefused(last)
           THEN /\ resp' = Flashed("clock-in", "warning", None)
                /\ work_logs' = table
                /\ UNCHANGED <<sqlite_sequence, now, skew_left>>
           ELSE /\ Len(table) < MaxRows
                /\ \E t \in Instants :
                      /\ ClockReads(t)
                      /\ work_logs' = InsertRow(table, sqlite_sequence, d, now_iso(t))
                      /\ resp' = Flashed("clock-in", "success", Some(now_iso(t)))
                /\ sqlite_sequence' = sqlite_sequence + 1
        /\ UNCHANGED <<req, wlock, probe>>

\* POST /clock-out, run to completion
ClockOut ==
    LET table == init_db(work_logs)
        d == today_str(now)
        last == LatestSession(table, d)
        check == ClockOutCheck(last)
    IN  /\ IF check # "ok"
           THEN /\ resp' = Flashed("clock-out", check, None)
                /\ work_logs' = table
                /\ UNCHANGED <<now, skew_left>>
           ELSE \E t \in Instants :
                      /\ ClockReads(t)
                      /\ work_logs' = UpdateClockOut(table, now_iso(t), Val(last).id)
                      /\ resp' = Flashed("clock-out", "success", Some(now_iso(t)))
        /\ UNCHANGED <<sqlite_sequence, req, wlock, probe>>

\* GET /logs?month=...
Logs ==
    /\ work_logs' = init_db(work_logs)
    /\ \E month \in MonthArgs : resp' = LogsContext(work_logs', month)
    /\ UNCHANGED <<sqlite_sequence, now, skew_left, req, wlock, probe>>

Next == Tick \/ ClockIn \/ ClockOut \/ Logs

\* requests served one at a time, the wall clock never set back
Spec == Init /\ [][Next]_vars

\* requests served one at a time, the wall clock set back at most MaxSkews times
InitSkew == InitStore /\ skew_left = MaxSkews /\ probe = None

NextSkew == Next \/ ClockBack

SpecSkew == InitSkew /\ [][NextSkew]_vars

(***************************************************************************)
(* Requests served by threads, each on its own connection.  The sqlite3    *)
(* module opens no transaction for a SELECT: a handler's SELECT reads the  *)
(* committed table, its INSERT or UPDATE takes the write lock, and its     *)
(* commit() writes the table and frees the lock.                           *)
(***************************************************************************)
\* init_db() before the request, then lines 102, 128: d = today_str()
Begin(w, route) ==
    /\ req[w].pc = "idle"
    /\ work_logs' = init_db(work_logs)
    /\ req' = [req EXCEPT ![w] = [Idle EXCEPT !.pc = "select", !.route = route,
                                              !.d = Some(today_str(now))]]
    /\ UNCHANGED <<sqlite_sequence, now, skew_left, resp, wlock, probe>>

\* lines 106-114, 132-143: the SELECT and the checks on its row
Select(w) ==
    /\ req[w].pc = "select"
    /\ LET last == LatestSession(work_logs, Val(req[w].d))
           refused == IF req[w].route = "clock-in"
                      THEN (IF ClockInRefused(last) THEN "warning" ELSE "ok")
                      ELSE ClockOutCheck(last)
       IN  IF refused # "ok"
           THEN /\ req' = [req EXCEPT ![w] = Idle]
                /\ resp' = Flashed(req[w].route, refused, None)
           ELSE /\ req' = [req EXCEPT ![w].pc = "stamp", ![w].last = last]
                /\ UNCHANGED resp
    /\ UNCHANGED <<work_logs, sqlite_sequence, now, skew_left, wlock, probe>>

\* lines 116, 145: ts = now_iso()
Stamp(w) ==
    /\ req[w].pc = "stamp"
    /\ req' = [req EXCEPT ![w].pc = "execute", ![w].ts = Some(now_iso(now))]
    /\ UNCHANGED <<work_logs, sqlite_sequence, now, skew_left, resp, wlock, probe>>

\* lines 117-120, 146-149: execute() of the INSERT or UPDATE begins a
\* transaction and takes the write lock
Execute(w) ==
    /\ req[w].pc = "execute"
    /\ wlock = None
    /\ req[w].route = "clock-in" => Len(work_logs) < MaxRows
    /\ wlock' = Some(w)
    /\ req' = [req EXCEPT ![w].pc = "commit"]
    /\ UNCHANGED <<work_logs, sqlite_sequence, now, skew_left, resp, probe>>

\* execute() gives up waiting for the lock another connection holds:
\* sqlite3.OperationalError, the request fails and writes nothing
Busy(w) ==
    /\ req[w].pc = "execute"
    /\ wlock # None /\ wlock # Some(w)
    /\ req' = [req EXCEPT ![w] = Idle]
    /\ resp' = [route |-> req[w].route, category |-> "locked", ts |-> None]
    /\ UNCHANGED <<work_logs, sqlite_sequence, now, skew_left, wlock, probe>>

\* lines 121-124, 150-153: commit(), flash, redirect
Commit(w) ==
    /\ req[w].pc = "commit"
    /\ IF req[w].route = "clock-in"
       THEN /\ work_logs' = InsertRow(work_logs, sqlite_sequence, Val(req[w].d), Val(req[w].ts))
            /\ sqlite_sequence' = sqlite_sequence + 1
       ELSE /\ work_logs' = UpdateClockOut(work_logs, Val(req[w].ts), Val(req[w].last).id)
            /\ UNCHANGED sqlite_sequence
    /\ wlock' = None
    /\ req' = [req EXCEPT ![w] = Idle]
    /\ resp' = Flashed(req[w].route, "success", req[w].ts)
    /\ UNCHANGED <<now, skew_left, probe>>

NextThreads ==
    \/ Tick
    \/ \E w \in Workers :
          \/ Begin(w, "clock-in")
          \/ Begin(w, "clock-out")
          \/ Select(w)
          \/ Stamp(w)
          \/ Execute(w)
          \/ Busy(w)
          \/ Commit(w)

\* requests of two threads interleaved statement by statement
SpecThreads == Init /\ [][NextThreads]_vars

(***************************************************************************)
(* calc_work_minutes called directly, on timestamps that need not come     *)
(* from the table: absent, empty, and now_iso() of any two moments.        *)
(***************************************************************************)
ProbeTimes ==
    {d * SecPerDay + m * SecPerMin + sec : d \in 0..1, m \in 0..MaxProbeMin, sec \in {0, 1, 59}}

\* an argument: the moment it was taken at (None when absent or empty) and its text
ProbeArgs ==
    {[at |-> None, text |-> None], [at |-> None, text |-> Some(<<>>)]}
        \cup {[at |-> Some(t), text |-> Some(now_iso(t))] : t \in ProbeTimes}

InitCalc ==
    /\ InitStore
    /\ skew_left = 0
    /\ \E a \in ProbeArgs, b \in ProbeArgs :
          probe = Some([clock_in |-> a, clock_out |-> b, called |-> FALSE, minutes |-> None])

Calc ==
    /\ probe # None
    /\ ~Val(probe).called
    /\ probe' = Some([Val(probe) EXCEPT
                         !.called = TRUE,
                         !.minutes = calc_work_minutes(Val(probe).clock_in.text,
                                                       Val(probe).clock_out.text)])
    /\ UNCHANGED <<work_logs, sqlite_sequence, now, skew_left, resp, req, wlock>>

SpecCalc == InitCalc /\ [][Calc]_vars

(***************************************************************************)
(* fmt_minutes called directly, on None and on every number of minutes up  *)
(* to MaxFmtMinutes.                                                       *)
(***************************************************************************)
FmtArgs == {None} \cup {Some(m) : m \in 0..MaxFmtMinutes}

InitFmt ==
    /\ InitStore
    /\ skew_left = 0
    /\ \E m \in FmtArgs : probe = Some([m |-> m, called |-> FALSE, text |-> <<>>])

Fmt ==
    /\ probe # None
    /\ ~Val(probe).called
    /\ probe' = Some([Val(probe) EXCEPT !.called = TRUE, !.text = fmt_minutes(Val(probe).m)])
    /\ UNCHANGED <<work_logs, sqlite_sequence, now, skew_left, resp, req, wlock>>

SpecFmt == InitFmt /\ [][Fmt]_vars

(***************************************************************************)
(* Properties.                                                             *)
(***************************************************************************)
\* a session is open: clock_in set, clock_out absent
IsOpen(r) == r.clock_in # None /\ r.clock_out = None

IsClosed(r) == r.clock_out # None

SessionsOf(d) == {r \in RowSet(work_logs) : r.work_date = d}

WorkDates == {r.work_date : r \in RowSet(work_logs)}

\* the session of d with the highest id is open
MostRecentIsOpen(d) ==
    \E r \in SessionsOf(d) : IsOpen(r) /\ \A o \in SessionsOf(d) : o.id <= r.id

\* at most one session of d is open, and it is the one with the highest id
OneOpenAndLatest(d) ==
    /\ Cardinality({r \in SessionsOf(d) : IsOpen(r)}) <= 1
    /\ \A r \in SessionsOf(d) : IsOpen(r) => \A o \in SessionsOf(d) : o.id <= r.id

\* C1: with requests served one at a time, every work_date has at most one
\* open session, and an open session is the one with the highest id of its date.
C1_OneOpenSessionPerDate == \A d \in WorkDates : OneOpenAndLatest(d)

\* a date holds a closed session followed by an open one
C1_Witness ==
    \E d \in WorkDates :
        \E r, o \in SessionsOf(d) : o.id < r.id /\ IsClosed(o) /\ IsOpen(r)

\* C2: with two clock-in requests of the same day in flight together, the read
\* of the latest session and the insert are atomic per request, so that at most
\* one of the two inserts a session and no date ever holds two open sessions.
C2_ConcurrentClockInsAtomic ==
    \A d \in WorkDates : Cardinality({r \in SessionsOf(d) : IsOpen(r)}) < 2

\* C3: a clock-in made while the most recent session of the day is open is
\* answered with the warning (AlreadyClockedIn) and changes no row and
\* inserts none.
C3_RefusedClockInChangesNothing ==
    [][(ClockIn /\ MostRecentIsOpen(today_str(now)))
          => /\ resp' = Flashed("clock-in", "warning", None)
             /\ work_logs' = work_logs
             /\ sqlite_sequence' = sqlite_sequence]_vars

\* a clock-in has been refused while today's only session is open
C3_Witness ==
    /\ resp = Flashed("clock-in", "warning", None)
    /\ Cardinality(SessionsOf(today_str(now))) = 1
    /\ MostRecentIsOpen(today_str(now))

\* C4: a clock-out made when the day has no session, or when its most recent
\* session is closed, is answered with the error or the warning (NoOpenSession)
\* and changes no row and inserts none.
C4_RefusedClockOutChangesNothing ==
    [][(ClockOut /\ ~MostRecentIsOpen(today_str(now)))
          => /\ resp'.route = "clock-out"
             /\ resp'.category = (IF SessionsOf(today_str(now)) = {} THEN "error" ELSE "warning")
             /\ resp'.ts = None
             /\ work_logs' = work_logs
             /\ sqlite_sequence' = sqlite_sequence]_vars

\* a clock-out has been refused on a day whose most recent session is closed
C4_Witness ==
    /\ resp = Flashed("clock-out", "warning", None)
    /\ SessionsOf(today_str(now)) # {}
    /\ ~MostRecentIsOpen(today_str(now))

\* every row of the table before the step is a row of the table after it
RowsKept == 
    /\ Len(work_logs') >= Len(work_logs)
    /\ \A i \in 1..Len(work_logs) : work_logs'[i] = work_logs[i]

\* C5: a clock-in made when the day has no session, or when its most recent
\* session is closed, succeeds and adds exactly one session, with a new id, the
\* handler's date as work_date, the handler's timestamp as clock_in and no
\* clock_out; every session that existed is left as it was.
C5_ClockInAddsOneOpenSession ==
    [][(ClockIn /\ ~MostRecentIsOpen(today_str(now)))
          => /\ Len(work_logs') = Len(work_logs) + 1
             /\ RowsKept
             /\ LET new == work_logs'[Len(work_logs')]
                IN  /\ new.work_date = today_str(now)
                    /\ new.clock_in = Some(now_iso(now'))
                    /\ new.clock_out = None
                    /\ \A i \in 1..Len(work_logs) : work_logs[i].id < new.id
                    /\ resp' = Flashed("clock-in", "success", new.clock_in)]_vars

\* a clock-in has succeeded on a day that already held a closed session
C5_Witness ==
    /\ resp.route = "clock-in" /\ resp.category = "success"
    /\ \E d \in WorkDates :
          \E r, o \in SessionsOf(d) :
              o.id < r.id /\ IsClosed(o) /\ IsOpen(r) /\ r.clock_in = resp.ts

\* C6: a clock-out made when the most recent session of the day is open
\* succeeds and sets clock_out to the handler's timestamp on exactly that
\* session: the number of sessions, that session's id, work_date and clock_in,
\* and every other session are left as they were.
C6_ClockOutClosesLatestOnly ==
    [][(ClockOut /\ MostRecentIsOpen(today_str(now)))
          => /\ Len(work_logs') = Len(work_logs)
             /\ resp' = Flashed("clock-out", "success", Some(now_iso(now')))
             /\ \A i \in 1..Len(work_logs) :
                   LET old == work_logs[i]
                       latest == /\ old.work_date = today_str(now)
                                 /\ \A o \in SessionsOf(today_str(now)) : o.id <= old.id
                   IN  IF latest
                       THEN work_logs'[i] = [old EXCEPT !.clock_out = Some(now_iso(now'))]
                       ELSE work_logs'[i] = old]_vars

\* a clock-out has succeeded on the second session of a day whose first
\* session was closed at another time
C6_Witness ==
    /\ resp.route = "clock-out" /\ resp.category = "success"
    /\ \E d \in WorkDates :
          \E r, o \in SessionsOf(d) :
              o.id < r.id /\ IsClosed(o) /\ r.clock_out = resp.ts /\ o.clock_out # r.clock_out

\* C7: a session, once created, is never removed, its id, work_date and
\* clock_in never change, and its clock_out, once set, never changes again.
C7_SessionsOnlyEverClosed ==
    [][/\ Len(work_logs') >= Len(work_logs)
       /\ \A i \in 1..Len(work_logs) :
             /\ work_logs'[i].id = work_logs[i].id
             /\ work_logs'[i].work_date = work_logs[i].work_date
             /\ work_logs'[i].clock_in = work_logs[i].clock_in
             /\ work_logs[i].clock_out # None
                   => work_logs'[i].clock_out = work_logs[i].clock_out]_vars

\* a closed session is followed by a session closed at a later time
C7_Witness ==
    \E i, j \in 1..Len(work_logs) :
        /\ i < j
        /\ IsClosed(work_logs[i]) /\ IsClosed(work_logs[j])
        /\ work_logs[i].clock_out # work_logs[j].clock_out

\* C8: calc_work_minutes returns None when clock_in or clock_out is absent;
\* for two timestamps it returns the whole minutes from clock_in to clock_out,
\* rounded down, when clock_out is not before clock_in, and 0 when it is
\* before: never a negative number, and 0, not None, for equal timestamps.
C8_DurationFloorsAndClamps ==
    (probe # None /\ Val(probe).called) =>
        LET a == Val(probe).clock_in
            b == Val(probe).clock_out
            minutes == Val(probe).minutes
        IN  /\ (a.text = None \/ b.text = None) => minutes = None
            /\ (a.at # None /\ b.at # None) =>
                  /\ minutes # None
                  /\ Val(minutes) >= 0
                  /\ Val(b.at) >= Val(a.at)
                        => /\ Val(minutes) * SecPerMin <= Val(b.at) - Val(a.at)
                           /\ Val(b.at) - Val(a.at) < (Val(minutes) + 1) * SecPerMin
                  /\ Val(b.at) < Val(a.at) => Val(minutes) = 0

\* a span of 1 minute 59 seconds has been measured as 1 minute
C8_Witness ==
    /\ probe # None /\ Val(probe).called
    /\ Val(probe).clock_in.at # None /\ Val(probe).clock_out.at # None
    /\ Val(Val(probe).clock_out.at) - Val(Val(probe).clock_in.at) = 2 * SecPerMin - 1
    /\ Val(probe).minutes = Some(1)

(***************************************************************************)
(* The report, measured against the table by definitions of their own.     *)
(***************************************************************************)
\* the text of every moment and of every day of the model's calendar
InstantText == [t \in Instants |-> now_iso(t)]

DayText == [k \in 0..MaxDay |-> today_str(k * SecPerDay)]

\* the moment a stored timestamp was taken at
InstantOf(text) == CHOOSE t \in Instants : InstantText[t] = text

\* the day of the model's calendar a work_date names
DayNumber(text) == CHOOSE k \in 0..MaxDay : DayText[k] = text

\* the minutes a formatted "h:mm" stands for
MinutesOf(text) ==
    LET k == CHOOSE i \in 1..Len(text) : text[i] = Colon
    IN  ToInt(SubSeq(text, 1, k - 1)) * MinPerHour + ToInt(SubSeq(text, k + 1, Len(text)))

\* a session's duration in minutes, 0 while it is undefined
DefinedMinutes(r) ==
    IF r.clock_in = None \/ r.clock_out = None THEN 0
    ELSE LET span == InstantOf(Val(r.clock_out)) - InstantOf(Val(r.clock_in))
         IN  IF span >= 0 THEN span \div SecPerMin ELSE 0

RECURSIVE TotalDefined(_)
TotalDefined(S) ==
    IF S = {} THEN 0
    ELSE LET r == CHOOSE x \in S : TRUE IN DefinedMinutes(r) + TotalDefined(S \ {r})

\* the sessions a report for month ("" for every month) is about
Reported(month) ==
    {r \in RowSet(work_logs) : month = <<>> \/ StartsWith(r.work_date, month \o <<Dash>>)}

ReportedOn(month, d) == {r \in Reported(month) : r.work_date = d}

RECURSIVE SumDayTotals(_)
SumDayTotals(days) ==
    IF days = <<>> THEN 0 ELSE MinutesOf(Head(days).day_total) + SumDayTotals(Tail(days))

\* C9: in a report, each day's day_total is the sum of the defined durations of
\* that date's sessions, the total is the sum of the day totals, and total_days
\* is the number of distinct work_dates that have a session: a date whose
\* sessions are all open is counted and adds 0, a date without a session is not
\* listed.
C9_ReportTotals ==
    resp.route = "logs" =>
        LET days == resp.daily_logs
            dates == {r.work_date : r \in Reported(resp.month)}
        IN  /\ resp.total_days = Cardinality(dates)
            /\ {days[i].work_date : i \in 1..Len(days)} = dates
            /\ \A i \in 1..Len(days) :
                  MinutesOf(days[i].day_total)
                      = TotalDefined(ReportedOn(resp.month, days[i].work_date))
            /\ MinutesOf(resp.total_time) = SumDayTotals(days)
            /\ MinutesOf(resp.total_time) = TotalDefined(Reported(resp.month))

\* a report of two days: one with two sessions of more than 0 minutes each,
\* one whose sessions are all open and whose total is 0
C9_Witness ==
    /\ resp.route = "logs"
    /\ resp.total_days = 2
    /\ \E i, j \in 1..Len(resp.daily_logs) :
          LET busy == resp.daily_logs[i]
              idle == resp.daily_logs[j]
          IN  /\ Len(busy.records) = 2
              /\ busy.records[1].minutes > 0 /\ busy.records[2].minutes > 0
              /\ MinutesOf(busy.day_total) = busy.records[1].minutes + busy.records[2].minutes
              /\ \A k \in 1..Len(idle.records) : idle.records[k].clock_out = <<Dash>>
              /\ MinutesOf(idle.day_total) = 0

\* C10: in a report the days are in strictly descending order of work_date,
\* each date once; the sessions of a day are in ascending order of id; and
\* every stored session of the reported range appears exactly once.
C10_ReportOrder ==
    resp.route = "logs" =>
        LET days == resp.daily_logs
        IN  /\ \A i, j \in 1..Len(days) :
                  i < j => DayNumber(days[i].work_date) > DayNumber(days[j].work_date)
            /\ {days[i].work_date : i \in 1..Len(days)}
                  = {r.work_date : r \in Reported(resp.month)}
            /\ \A i \in 1..Len(days) :
                  LET S == ReportedOn(resp.month, days[i].work_date)
                  IN  /\ Len(days[i].records) = Cardinality(S)
                      /\ \A r \in S :
                            LET rec == days[i].records[Cardinality({o \in S : o.id < r.id}) + 1]
                            IN  /\ rec.clock_in = Val(r.clock_in)
                                /\ rec.clock_out
                                      = (IF r.clock_out = None THEN <<Dash>> ELSE Val(r.clock_out))

\* a report of two days, one of them with two sessions begun at different times
C10_Witness ==
    /\ resp.route = "logs"
    /\ Len(resp.daily_logs) = 2
    /\ \E i \in 1..Len(resp.daily_logs) :
          /\ Len(resp.daily_logs[i].records) = 2
          /\ resp.daily_logs[i].records[1].clock_in # resp.daily_logs[i].records[2].clock_in

\* C11: the report is read-only and repeatable: a request for it leaves every
\* session and the id counter as they were, and a report asked again for the
\* same month, the table being the same, is the same report in its grouping,
\* its order and its totals.  (A step that leaves the clock alone and ends in a
\* report is a request for the report.)
C11_ReportReadOnlyAndRepeatable ==
    [][(resp'.route = "logs" /\ now' = now)
          => /\ work_logs' = work_logs
             /\ sqlite_sequence' = sqlite_sequence
             /\ (resp.route = "logs" /\ resp'.month = resp.month) => resp' = resp]_vars

\* the report for every month has been made of a table of an open and a closed
\* session
C11_Witness ==
    /\ resp.route = "logs" /\ resp.month = <<>>
    /\ Len(work_logs) = 2
    /\ IsClosed(work_logs[1]) /\ IsOpen(work_logs[2])
    /\ resp.total_days = Cardinality(WorkDates)

\* C12: fmt_minutes renders a number of minutes m >= 0 as "h:mm": the hours
\* in decimal without padding, a colon, and two digits of minutes with
\* 0 <= mm <= 59 and 60 * h + mm = m (210 is "3:30", 450 is "7:30", 0 is
\* "0:00"); it renders None, and nothing else, as "-".
C12_FmtMinutes ==
    (probe # None /\ Val(probe).called) =>
        LET m == Val(probe).m
            text == Val(probe).text
            colons == {i \in 1..Len(text) : text[i] = Colon}
        IN  /\ m = None => text = <<Dash>>
            /\ m # None =>
                  /\ text # <<Dash>>
                  /\ Cardinality(colons) = 1
                  /\ \A i \in (1..Len(text)) \ colons : text[i] \in 48..57
                  /\ LET k == CHOOSE i \in colons : TRUE
                         hours == SubSeq(text, 1, k - 1)
                         minutes == SubSeq(text, k + 1, Len(text))
                     IN  /\ Len(hours) >= 1
                         /\ Len(hours) > 1 => hours[1] # 48
                         /\ Len(minutes) = 2
                         /\ ToInt(minutes) \in 0..59
                         /\ 60 * ToInt(hours) + ToInt(minutes) = Val(m)
            /\ m = Some(210) => text = <<51, 58, 51, 48>>
            /\ m = Some(450) => text = <<55, 58, 51, 48>>
            /\ m = Some(0) => text = <<48, 58, 48, 48>>

\* 185 minutes have been rendered as "3:05"
C12_Witness ==
    /\ probe # None /\ Val(probe).called
    /\ Val(probe).m = Some(185)
    /\ Val(probe).text = <<51, 58, 48, 53>>

\* a month argument of the form YYYY-MM
IsYearMonth(month) ==
    /\ Len(month) = 7
    /\ month[5] = Dash
    /\ \A i \in {1, 2, 3, 4, 6, 7} : month[i] \in 48..57

\* the sessions whose work_date begins with "YYYY-MM-"; every session for ""
InMonth(month) ==
    IF month = <<>> THEN RowSet(work_logs)
    ELSE {r \in RowSet(work_logs) :
             Len(r.work_date) >= 8 /\ SubSeq(r.work_date, 1, 8) = month \o <<Dash>>}

RECURSIVE CountRecords(_)
CountRecords(days) ==
    IF days = <<>> THEN 0 ELSE Len(Head(days).records) + CountRecords(Tail(days))

\* C13: a report for a month YYYY-MM contains exactly the sessions whose
\* work_date begins with "YYYY-MM-", and its totals are over those sessions
\* only; a report without a month is over every stored session.
C13_MonthFilter ==
    (resp.route = "logs" /\ (resp.month = <<>> \/ IsYearMonth(resp.month))) =>
        LET days == resp.daily_logs
            S == InMonth(resp.month)
        IN  /\ CountRecords(days) = Cardinality(S)
            /\ {days[i].work_date : i \in 1..Len(days)} = {r.work_date : r \in S}
            /\ \A i \in 1..Len(days) :
                  /\ Len(days[i].records) = Cardinality({r \in S : r.work_date = days[i].work_date})
                  /\ {days[i].records[k].clock_in : k \in 1..Len(days[i].records)}
                        = {Val(r.clock_in) : r \in {o \in S : o.work_date = days[i].work_date}}
            /\ resp.total_days = Cardinality({r.work_date : r \in S})
            /\ MinutesOf(resp.total_time) = TotalDefined(S)

\* the report for 2026-01 has been made of a table that also holds a session
\* of 2026-02-01: it lists one day, and its total leaves that session out
C13_Witness ==
    /\ resp.route = "logs"
    /\ resp.month = <<50, 48, 50, 54, 45, 48, 49>>
    /\ resp.total_days = 1
    /\ Cardinality(WorkDates) = 2
    /\ \E r \in RowSet(work_logs) : r \notin InMonth(resp.month) /\ DefinedMinutes(r) > 0
    /\ MinutesOf(resp.total_time) < TotalDefined(RowSet(work_logs))

\* the dates of the model's calendar
AllDates == {today_str(k * SecPerDay) : k \in 0..MaxDay}

\* the day's place in its life cycle
DayState(d) ==
    IF SessionsOf(d) = {} THEN "NO_SESSION"
    ELSE IF MostRecentIsOpen(d) THEN "OPEN"
    ELSE "CLOSED"

NumSessions(d) == Cardinality(SessionsOf(d))

NumClosed(d) == Cardinality({r \in SessionsOf(d) : IsClosed(r)})

\* every session of d but the one with the highest id is closed
AllButLatestClosed(d) ==
    \A r \in SessionsOf(d) : IsClosed(r) \/ \A o \in SessionsOf(d) : o.id <= r.id

\* a step that is a clock-in, or a clock-out, answered with success
ClockInSucceeds == resp'.route = "clock-in" /\ resp'.category = "success" /\ ClockIn

ClockOutSucceeds == resp'.route = "clock-out" /\ resp'.category = "success" /\ ClockOut

\* C14: on every date the successful requests alternate, beginning with a
\* clock-in: a clock-in succeeds only on a day that is not OPEN, makes it OPEN
\* and adds one session; a clock-out succeeds only on an OPEN day, makes it
\* CLOSED and closes one session; it leaves the sessions of every other date
\* as they are, and no other step changes any session.
\* So the day's sessions are as many as its successful clock-ins and its
\* closed sessions as many as its successful clock-outs.  Every session but
\* the one with the highest id is closed, and a day that has a session never
\* returns to NO_SESSION.
C14_SuccessesAlternate ==
    [][\A today \in {today_str(now)} :
       LET in_ok == ClockInSucceeds
           out_ok == ClockOutSucceeds
       IN  /\ in_ok => /\ DayState(today) # "OPEN"
                       /\ DayState(today)' = "OPEN"
                       /\ NumSessions(today)' = NumSessions(today) + 1
                       /\ NumClosed(today)' = NumClosed(today)
           /\ out_ok => /\ DayState(today) = "OPEN"
                        /\ DayState(today)' = "CLOSED"
                        /\ NumSessions(today)' = NumSessions(today)
                        /\ NumClosed(today)' = NumClosed(today) + 1
           /\ IF in_ok \/ out_ok
              THEN \A d \in AllDates \ {today} : SessionsOf(d)' = SessionsOf(d)
              ELSE work_logs' = work_logs
           /\ \A d \in AllDates :
                 /\ AllButLatestClosed(d)'
                 /\ DayState(d) # "NO_SESSION" => DayState(d)' # "NO_SESSION"]_vars

\* clock-in, clock-out, clock-in on one day: the table holds that day's two
\* sessions, the first closed and the second open
C14_Witness ==
    LET d == today_str(now)
    IN  /\ resp.route = "clock-in" /\ resp.category = "success"
        /\ Len(work_logs) = 2
        /\ NumSessions(d) = 2 /\ NumClosed(d) = 1
        /\ DayState(d) = "OPEN"
        /\ IsClosed(work_logs[1]) /\ IsOpen(work_logs[2])

\* C15: while the wall clock is never set back, every session that has a
\* clock_out has a clock_in, and its clock_out is not before its clock_in.
C15_ClockOutNotBeforeClockIn ==
    \A r \in RowSet(work_logs) :
        IsClosed(r) =>
            /\ r.clock_in # None
            /\ InstantOf(Val(r.clock_out)) >= InstantOf(Val(r.clock_in))

\* one session closed at the very second it began, another closed later
C15_Witness ==
    \E r, o \in RowSet(work_logs) :
        /\ IsClosed(r) /\ r.clock_in # None /\ Val(r.clock_out) = Val(r.clock_in)
        /\ IsClosed(o) /\ o.clock_in # None
        /\ InstantOf(Val(o.clock_out)) > InstantOf(Val(o.clock_in))

\* C16: in a report an open session adds 0 minutes to the totals and its
\* work_time is shown as "-"; a closed session of 0 minutes adds 0 as well but
\* is shown as "0:00"; a closed session is never shown as "-".
C16_OpenShownAsDash ==
    resp.route = "logs" =>
        \A i \in 1..Len(resp.daily_logs) :
            LET day == resp.daily_logs[i]
                S == ReportedOn(resp.month, day.work_date)
            IN  \A r \in S :
                    LET rec == day.records[Cardinality({o \in S : o.id < r.id}) + 1]
                    IN  IF IsOpen(r)
                        THEN rec.work_time = <<Dash>> /\ rec.minutes = 0
                        ELSE /\ rec.work_time # <<Dash>>
                             /\ rec.minutes = DefinedMinutes(r)
                             /\ MinutesOf(rec.work_time) = DefinedMinutes(r)
                             /\ DefinedMinutes(r) = 0 => rec.work_time = <<48, 58, 48, 48>>

\* a reported day holds a closed session of 0 minutes, shown as "0:00", and
\* an open one, shown as "-"
C16_Witness ==
    /\ resp.route = "logs"
    /\ \E i \in 1..Len(resp.daily_logs) :
          \E j, k \in 1..Len(resp.daily_logs[i].records) :
              LET shut == resp.daily_logs[i].records[j]
                  open == resp.daily_logs[i].records[k]
              IN  /\ shut.clock_out = shut.clock_in
                  /\ shut.work_time = <<48, 58, 48, 48>> /\ shut.minutes = 0
                  /\ open.clock_out = <<Dash>>
                  /\ open.work_time = <<Dash>> /\ open.minutes = 0

\* C17: with clock-outs of one date in flight together, a session's clock_out
\* is written once: no request writes the clock_out of a session that is
\* already closed.
C17_ClockOutWrittenOnce ==
    [][\A i \in 1..Len(work_logs) :
          IsClosed(work_logs[i]) => work_logs'[i].clock_out = work_logs[i].clock_out]_vars

\* what the handlers' checks decide for date d in the present state
ClockInWouldSucceed(d) == ~ClockInRefused(LatestSession(init_db(work_logs), d))

ClockOutWouldSucceed(d) == ClockOutCheck(LatestSession(init_db(work_logs), d)) = "ok"

\* C18: in every reachable state and for every date, exactly one of clock-in
\* and clock-out would succeed: clock-out when the day's most recent session
\* is open, clock-in otherwise.  (Room in the table, which the model bounds
\* by MaxRows, is left aside.)
C18_ExactlyOneWouldSucceed ==
    \A d \in AllDates :
        /\ ClockInWouldSucceed(d) # ClockOutWouldSucceed(d)
        /\ ClockOutWouldSucceed(d) = (DayState(d) = "OPEN")

\* one day's most recent session is open and another's is closed
C18_Witness ==
    \E d, e \in AllDates :
        /\ DayState(d) = "OPEN" /\ ClockOutWouldSucceed(d) /\ ~ClockInWouldSucceed(d)
        /\ DayState(e) = "CLOSED" /\ ClockInWouldSucceed(e) /\ ~ClockOutWouldSucceed(e)

\* C19: a request changes only sessions of the date it read, so a session
\* that is still open when the current date has passed its work_date is
\* changed by no later step: it stays open.
C19_PastOpenSessionStaysOpen ==
    [][\A i \in 1..Len(work_logs) :
          /\ work_logs'[i] # work_logs[i]
                => \E w \in Workers : req[w].d = Some(work_logs[i].work_date)
          /\ (IsOpen(work_logs[i]) /\ DayNumber(work_logs[i].work_date) < now \div SecPerDay)
                => work_logs'[i] = work_logs[i]]_vars

\* C20: every session's work_date is the calendar date of its clock_in
\* timestamp, also when the clock passes midnight between the handler's
\* reading of the date and its reading of the timestamp.
C20_WorkDateIsDateOfClockIn ==
    \A r \in RowSet(work_logs) :
        r.clock_in # None =>
            /\ SubSeq(Val(r.clock_in), 1, Len(r.work_date)) = r.work_date
            /\ DayNumber(r.work_date) = InstantOf(Val(r.clock_in)) \div SecPerDay

=============================================================================
